---- MODULE Spec2Model ----
(***************************************************************************)
(* Model of src/app.js: the pass of processExcelToTreeJSON that folds the  *)
(* rows of a sheet into a deduplicated list of tree nodes.                 *)
(*                                                                         *)
(* JavaScript strings are sequences of one-character strings, so that      *)
(* trim() and the template literals that build the composite key are       *)
(* computed character by character.  A value read from a row is a record   *)
(* [t, s, n]: t is the JavaScript type, s the text of a string, n the      *)
(* value of a number.                                                      *)
(***************************************************************************)
EXTENDS Integers, Sequences, FiniteSets, TLC

(* ---------- bounds ---------- *)

\* rawData holds at most MaxRows rows
MaxRows == 2

\* generateObjectId can be called MaxNodes times
MaxNodes == 3

(* ---------- JavaScript values ---------- *)

Undef == [t |-> "undefined", s |-> <<>>, n |-> 0]

Str(chars) == [t |-> "string", s |-> chars, n |-> 0]

Num(k) == [t |-> "number", s |-> <<>>, n |-> k]

\* the operand test of !x and of x || d
Falsy(v) ==
  \/ v.t = "undefined"
  \/ v.t = "string" /\ v.s = <<>>
  \/ v.t = "number" /\ v.n = 0

\* x || d
OrDefault(v, d) == IF Falsy(v) THEN d ELSE v

WhiteSpace == {" "}

RECURSIVE TrimStart(_)
TrimStart(s) ==
  IF s = <<>> THEN <<>>
  ELSE IF Head(s) \in WhiteSpace THEN TrimStart(Tail(s)) ELSE s

RECURSIVE TrimEnd(_)
TrimEnd(s) ==
  IF s = <<>> THEN <<>>
  ELSE IF s[Len(s)] \in WhiteSpace THEN TrimEnd(SubSeq(s, 1, Len(s) - 1)) ELSE s

\* String.prototype.trim
Trim(s) == TrimEnd(TrimStart(s))

(* ---------- constants of the program ---------- *)

hierarchyLevels ==
  << "L1 - Line of Business",
     "L2 - Process Group",
     "L3 - Scope Item",
     "L4 - Process Variant",
     "L5 - Process Step" >>

NumLevels == Len(hierarchyLevels)

LevelNames == {hierarchyLevels[i] : i \in 1..NumLevels}

\* the metadata fields copied from the row, with the default of each
MetaDefaults ==
  ("ID" :> Str(<<>>)) @@
  ("Business Role" :> Str(<<>>)) @@
  ("Fiori app UX recommendations" :> Str(<<>>)) @@
  ("Insights (Indicative)" :> Str(<<>>)) @@
  ("Business stakeholders" :> Str(<<>>)) @@
  ("Materiality" :> Num(0)) @@
  ("Description" :> Str(<<>>))

MetaFields == DOMAIN MetaDefaults

\* the characters of the hexadecimal text of an identifier
HexDigits == << "1", "2", "3", "4", "5", "6", "7", "8", "9", "a", "b", "c", "d", "e", "f" >>

\* the identifiers generateObjectId can return: hexadecimal text of a fixed
\* length, here one digit, as many as there are calls
IdPool == {<< HexDigits[i] >> : i \in 1..MaxNodes}

\* the place of an identifier in IdPool
IdIndex(id) == CHOOSE i \in 1..MaxNodes : id = << HexDigits[i] >>

\* null, and the empty string of _parent
NoId == <<>>

(* ---------- inputs ---------- *)

\* the values a level column of a row can hold: absent, blank, a title with
\* and without blanks around it
PlainCells ==
  { Undef,
    Str(<< " " >>),
    Str(<< "A" >>),
    Str(<< " ", "A", " " >>) }

\* and a title that holds ':' and the text of an identifier
Cells == PlainCells \cup { Str(<< "A", ":", "1" >>) }

\* the metadata columns of a row: all absent, all present, and some present
\* with an empty text or a zero
NoMeta == [f \in MetaFields |-> Undef]

MetaRows ==
  { NoMeta,
    [f \in MetaFields |-> IF f = "Materiality" THEN Num(2) ELSE Str(<< "p" >>)],
    [f \in MetaFields |-> IF f = "Materiality" THEN Num(0)
                          ELSE IF f = "Description" THEN Str(<<>>) ELSE Str(<< "q" >>)] }

(* ---------- state ---------- *)

VARIABLES
  inputCells,       \* the values the level columns of the sheet hold
  inputMetas,       \* the metadata columns the rows of the sheet hold
  pc,               \* "scan" while rawData.forEach runs, "done" after it
  rowIndex,         \* number of rows of rawData whose callback has started
  levelIndex,       \* number of levels of the current row already visited
  rowMeta,          \* the metadata columns of the current row
  previousLevelId,  \* the running parent of the current row
  outputNodes,      \* the output array
  idMap,            \* composite key -> node id
  nodeMap,          \* node id -> node (a position of outputNodes: the same object)
  firstSeen,        \* history: the (level, value, parent) lookups in first-seen order
  rowChain,         \* history: the (rank, id) resolved so far in the current row
  createdChain,     \* history: for each output node, rowChain when it was created
  proc,             \* the process: exit status, console.error calls, writeFileSync
                    \* calls, and (history) which step of the run failed
  rowValues,        \* history: the trimmed level values of the current row so far
  doneRows,         \* history: the level values of the rows processed before
  builds            \* two builds run side by side on the same rows: for each its
                    \* outputNodes, idMap, nodeMap and previousLevelId

vars == << inputCells, inputMetas, pc, rowIndex, levelIndex, rowMeta, previousLevelId,
           outputNodes, idMap, nodeMap, firstSeen, rowChain, createdChain, proc,
           rowValues, doneRows, builds >>

\* the identifiers whose text occurs in a value of the sheet
TitleIds ==
  { id \in IdPool :
      \E c \in inputCells : \E k \in 1..(Len(c.s) - Len(id) + 1) :
        SubSeq(c.s, k, k + Len(id) - 1) = id }

\* The results of a call of generateObjectId when the identifiers of used
\* are issued: random text that is none of them.  The identifiers that occur
\* in no input value are interchangeable, so of these the first unused one
\* stands for all.
generateObjectId(used) ==
  LET fresh == IdPool \ used
      plain == fresh \ TitleIds
  IN (fresh \cap TitleIds)
       \cup {id \in plain : \A other \in plain : IdIndex(id) <= IdIndex(other)}

(* ---------- the level callback ---------- *)

\* if (!row[level] || row[level].trim() === '') return;
IsSkipped(c) == Falsy(c) \/ (c.t = "string" /\ Trim(c.s) = <<>>)

\* row[level].trim is not a function: a truthy value that is not a string
TrimThrows(c) == ~Falsy(c) /\ c.t # "string"

\* variant: the level name left out of the key
compositeKeyNoLevel(level, value, prevId) ==
  IF prevId # NoId
  THEN << hierarchyLevels[1], value \o << ":" >> \o prevId >>
  ELSE << hierarchyLevels[1], value >>

\* The template literals of the composite key.  No level name contains ':',
\* so the text of a key up to its first ':' is the level name; a key is kept
\* as the pair of the level name and the text after that first ':'.
compositeKey(level, value, prevId) ==
  IF prevId # NoId
  THEN << level, value \o << ":" >> \o prevId >>
  ELSE << level, value >>

\* variant: every level field of the node gets the value
NewNodeAllLevels(nodeId, level, value, prevId, row) ==
  ("_id" :> nodeId) @@
  ("title" :> value) @@
  ("_parent" :> (IF prevId # NoId THEN prevId ELSE <<>>)) @@
  ("_child" :> <<>>) @@
  [l \in LevelNames |-> value] @@
  [f \in MetaFields |-> OrDefault(row[f], MetaDefaults[f])]

\* the node object literal
NewNode(nodeId, level, value, prevId, row) ==
  ("_id" :> nodeId) @@
  ("title" :> value) @@
  ("_parent" :> (IF prevId # NoId THEN prevId ELSE <<>>)) @@
  ("_child" :> <<>>) @@
  [l \in LevelNames |-> IF l = level THEN value ELSE <<>>] @@
  [f \in MetaFields |-> OrDefault(row[f], MetaDefaults[f])]

\* variant: the new node is never linked to its parent
LinkChildMissing(nodes, nmap, prevId, nodeId) == nodes

\* variant: unshift in place of push on the parent's _child
LinkChildFront(nodes, nmap, prevId, nodeId) ==
  IF prevId # NoId /\ prevId \in DOMAIN nmap
  THEN [nodes EXCEPT ![nmap[prevId]] =
          ("_child" :> (<< nodeId >> \o nodes[nmap[prevId]]["_child"])) @@ @]
  ELSE nodes

\* parentNode._child.push(nodeId), guarded by the lookup and by includes()
LinkChild(nodes, nmap, prevId, nodeId) ==
  IF prevId # NoId /\ prevId \in DOMAIN nmap
     /\ \A k \in 1..Len(nodes[nmap[prevId]]["_child"]) :
          nodes[nmap[prevId]]["_child"][k] # nodeId
  THEN [nodes EXCEPT ![nmap[prevId]] =
          ("_child" :> Append(nodes[nmap[prevId]]["_child"], nodeId)) @@ @]
  ELSE nodes

\* variant: unshift in place of push on the output array
PushNodeFront(nodes, node) == << node >> \o nodes

\* outputNodes.push(node)
PushNode(nodes, node) == Append(nodes, node)

\* variant: the key is never stored
IdMapSetLost(m, key, nodeId) == m

\* idMap.set(compositeKey, nodeId)
IdMapSet(m, key, nodeId) == (key :> nodeId) @@ m

\* idMap.get(compositeKey): undefined, which is falsy like null, when absent
IdMapGet(m, key) == IF key \in DOMAIN m THEN m[key] ELSE NoId

\* variant: the node is never stored
NodeMapSetLost(m, nodeId, pos) == m

\* nodeMap.set(nodeId, node)
NodeMapSet(m, nodeId, pos) == (nodeId :> pos) @@ m

\* history: the lookup (level, value, parent) is entered when first made
Seen(level, value, prevId) ==
  \E k \in 1..Len(firstSeen) :
    /\ firstSeen[k].level = level
    /\ firstSeen[k].value = value
    /\ firstSeen[k].parent = prevId

NoteSeen(level, value, prevId) ==
  IF Seen(level, value, prevId) THEN firstSeen
  ELSE Append(firstSeen, [level |-> level, value |-> value, parent |-> prevId,
                          meta |-> rowMeta])

\* a build whose collections are empty (lines 44-51)
NewBuild == [outputNodes |-> <<>>, idMap |-> <<>>, nodeMap |-> <<>>, previousLevelId |-> NoId]

\* the state when rawData.forEach is called
Start ==
  /\ pc = "scan"
  /\ rowIndex = 0
  /\ levelIndex = NumLevels
  /\ rowMeta = NoMeta
  /\ previousLevelId = NoId
  /\ outputNodes = <<>>
  /\ idMap = <<>>
  /\ nodeMap = <<>>
  /\ firstSeen = <<>>
  /\ rowChain = <<>>
  /\ createdChain = <<>>
  /\ proc = [exit |-> 0, stderr |-> 0, writes |-> 0, failure |-> "none"]
  /\ rowValues = <<>>
  /\ doneRows = {}
  /\ builds = << NewBuild, NewBuild >>

\* a sheet with level columns only, whose titles can hold an identifier
Init ==
  /\ Start
  /\ inputCells = Cells
  /\ inputMetas = { NoMeta }

\* a sheet with metadata columns and plain titles
InitMeta ==
  /\ Start
  /\ inputCells = PlainCells
  /\ inputMetas = MetaRows

\* variant: previousLevelId declared outside the row callback
BeginRowKeepParent ==
  /\ pc = "scan"
  /\ levelIndex = NumLevels
  /\ rowIndex < MaxRows
  /\ \E m \in inputMetas : rowMeta' = m
  /\ rowIndex' = rowIndex + 1
  /\ levelIndex' = 0
  /\ rowChain' = <<>>
  /\ rowValues' = <<>>
  /\ doneRows' = IF rowIndex = 0 THEN doneRows ELSE doneRows \cup {rowValues}
  /\ UNCHANGED << builds, proc, inputCells, inputMetas, pc, previousLevelId, outputNodes, idMap, nodeMap,
                        firstSeen, createdChain >>

\* rawData.forEach(row => { let previousLevelId = null; ...
BeginRow ==
  /\ pc = "scan"
  /\ levelIndex = NumLevels
  /\ rowIndex < MaxRows
  /\ \E m \in inputMetas : rowMeta' = m
  /\ rowIndex' = rowIndex + 1
  /\ levelIndex' = 0
  /\ previousLevelId' = NoId
  /\ rowChain' = <<>>
  /\ rowValues' = <<>>
  /\ doneRows' = IF rowIndex = 0 THEN doneRows ELSE doneRows \cup {rowValues}
  /\ UNCHANGED << builds, proc, inputCells, inputMetas, pc, outputNodes, idMap, nodeMap, firstSeen, createdChain >>

\* variant: without the early return, a blank value makes a node of its own
SkipLevelMakesNode ==
  /\ pc = "scan"
  /\ levelIndex < NumLevels
  /\ \E c \in inputCells : IsSkipped(c)
  /\ \E nodeId \in generateObjectId({outputNodes[k]["_id"] : k \in 1..Len(outputNodes)}) :
       outputNodes' = PushNode(outputNodes,
                               NewNode(nodeId, hierarchyLevels[levelIndex + 1], <<>>,
                                       previousLevelId, rowMeta))
  /\ levelIndex' = levelIndex + 1
  /\ rowValues' = Append(rowValues, <<>>)
  /\ doneRows' = doneRows
  /\ UNCHANGED << builds, proc, inputCells, inputMetas, pc, rowIndex, rowMeta, previousLevelId,
                        idMap, nodeMap, firstSeen, rowChain, createdChain >>

\* the level callback on an absent, empty or blank value
SkipLevel ==
  /\ pc = "scan"
  /\ levelIndex < NumLevels
  /\ \E c \in inputCells : IsSkipped(c)
  /\ levelIndex' = levelIndex + 1
  /\ rowValues' = Append(rowValues, <<>>)
  /\ doneRows' = doneRows
  /\ UNCHANGED << builds, proc, inputCells, inputMetas, pc, rowIndex, rowMeta, previousLevelId, outputNodes,
                        idMap, nodeMap, firstSeen, rowChain, createdChain >>

\* the level callback on a value whose composite key is new
CreateNode ==
  /\ pc = "scan"
  /\ levelIndex < NumLevels
  /\ \E c \in inputCells :
       LET level == hierarchyLevels[levelIndex + 1]
           value == Trim(c.s)
           key   == compositeKey(level, value, previousLevelId)
       IN /\ ~IsSkipped(c)
          /\ ~TrimThrows(c)
          /\ key \notin DOMAIN idMap
          /\ \E nodeId \in generateObjectId({outputNodes[k]["_id"] : k \in 1..Len(outputNodes)}) :
               LET node   == NewNode(nodeId, level, value, previousLevelId, rowMeta)
                   pushed == PushNode(outputNodes, node)
                   nmap   == NodeMapSet(nodeMap, nodeId, Len(pushed))
               IN /\ idMap' = IdMapSet(idMap, key, nodeId)
                  /\ nodeMap' = nmap
                  /\ outputNodes' = LinkChild(pushed, nmap, previousLevelId, nodeId)
                  /\ previousLevelId' = IdMapGet(idMap', key)
                  /\ rowChain' = Append(rowChain, [rank |-> levelIndex + 1, id |-> IdMapGet(idMap', key)])
          /\ rowValues' = Append(rowValues, value)
          /\ firstSeen' = NoteSeen(level, value, previousLevelId)
          /\ createdChain' = Append(createdChain, rowChain)
  /\ levelIndex' = levelIndex + 1
  /\ doneRows' = doneRows
  /\ UNCHANGED << builds, proc, inputCells, inputMetas, pc, rowIndex, rowMeta >>

\* variant: a row that finds its key in idMap writes its metadata on the node
ReuseNodeOverwrite ==
  /\ pc = "scan"
  /\ levelIndex < NumLevels
  /\ \E c \in inputCells :
       LET level == hierarchyLevels[levelIndex + 1]
           value == Trim(c.s)
           key   == compositeKey(level, value, previousLevelId)
       IN /\ ~IsSkipped(c)
          /\ ~TrimThrows(c)
          /\ key \in DOMAIN idMap
          /\ previousLevelId' = IdMapGet(idMap, key)
          /\ rowChain' = Append(rowChain, [rank |-> levelIndex + 1, id |-> IdMapGet(idMap, key)])
          /\ rowValues' = Append(rowValues, value)
          /\ firstSeen' = NoteSeen(level, value, previousLevelId)
          /\ outputNodes' = [outputNodes EXCEPT ![nodeMap[IdMapGet(idMap, key)]] =
                               [f \in MetaFields |-> OrDefault(rowMeta[f], MetaDefaults[f])] @@ @]
  /\ levelIndex' = levelIndex + 1
  /\ doneRows' = doneRows
  /\ UNCHANGED << builds, proc, inputCells, inputMetas, pc, rowIndex, rowMeta, idMap, nodeMap, createdChain >>

\* variant: the child link is made outside the test of idMap, without the
\* test of _child.includes
ReuseNodeRelink ==
  /\ pc = "scan"
  /\ levelIndex < NumLevels
  /\ \E c \in inputCells :
       LET level == hierarchyLevels[levelIndex + 1]
           value == Trim(c.s)
           key   == compositeKey(level, value, previousLevelId)
       IN /\ ~IsSkipped(c)
          /\ ~TrimThrows(c)
          /\ key \in DOMAIN idMap
          /\ previousLevelId' = IdMapGet(idMap, key)
          /\ rowChain' = Append(rowChain, [rank |-> levelIndex + 1, id |-> IdMapGet(idMap, key)])
          /\ rowValues' = Append(rowValues, value)
          /\ firstSeen' = NoteSeen(level, value, previousLevelId)
          /\ outputNodes' =
               IF previousLevelId # NoId /\ previousLevelId \in DOMAIN nodeMap
               THEN [outputNodes EXCEPT ![nodeMap[previousLevelId]]["_child"] =
                                          Append(@, IdMapGet(idMap, key))]
               ELSE outputNodes
  /\ levelIndex' = levelIndex + 1
  /\ doneRows' = doneRows
  /\ UNCHANGED << builds, proc, inputCells, inputMetas, pc, rowIndex, rowMeta, idMap, nodeMap, createdChain >>

\* the level callback on a value whose composite key is in idMap
ReuseNode ==
  /\ pc = "scan"
  /\ levelIndex < NumLevels
  /\ \E c \in inputCells :
       LET level == hierarchyLevels[levelIndex + 1]
           value == Trim(c.s)
           key   == compositeKey(level, value, previousLevelId)
       IN /\ ~IsSkipped(c)
          /\ ~TrimThrows(c)
          /\ key \in DOMAIN idMap
          /\ previousLevelId' = IdMapGet(idMap, key)
          /\ rowChain' = Append(rowChain, [rank |-> levelIndex + 1, id |-> IdMapGet(idMap, key)])
          /\ rowValues' = Append(rowValues, value)
          /\ firstSeen' = NoteSeen(level, value, previousLevelId)
  /\ levelIndex' = levelIndex + 1
  /\ doneRows' = doneRows
  /\ UNCHANGED << builds, proc, inputCells, inputMetas, pc, rowIndex, rowMeta, outputNodes, idMap, nodeMap, createdChain >>

\* rawData.forEach returns: the row just finished was the last of rawData
EndScan ==
  /\ pc = "scan"
  /\ levelIndex = NumLevels
  /\ pc' = "done"
  /\ UNCHANGED << builds, rowValues, doneRows, proc, inputCells, inputMetas, rowIndex, levelIndex, rowMeta, previousLevelId,
                        outputNodes, idMap, nodeMap, firstSeen, rowChain, createdChain >>

Next == BeginRow \/ SkipLevel \/ CreateNode \/ ReuseNode \/ EndScan

Spec == Init /\ [][Next]_vars

SpecMeta == InitMeta /\ [][Next]_vars

(* ---------- the run of the script ---------- *)

\* the level columns of a sheet that also holds numeric cells
RunCells == PlainCells \cup { Num(0), Num(5) }

\* the script starts: nothing read, nothing built
InitRun ==
  /\ pc = "main"
  /\ rowIndex = 0
  /\ levelIndex = NumLevels
  /\ rowMeta = NoMeta
  /\ previousLevelId = NoId
  /\ outputNodes = <<>>
  /\ idMap = <<>>
  /\ nodeMap = <<>>
  /\ firstSeen = <<>>
  /\ rowChain = <<>>
  /\ createdChain = <<>>
  /\ proc = [exit |-> 0, stderr |-> 0, writes |-> 0, failure |-> "none"]
  /\ rowValues = <<>>
  /\ doneRows = {}
  /\ builds = << NewBuild, NewBuild >>
  /\ inputCells = RunCells
  /\ inputMetas = { NoMeta }

\* if (!fs.existsSync(inputFile)) { console.error; console.log; process.exit(1) }
InputMissing ==
  /\ pc = "main"
  /\ pc' = "exited"
  /\ proc' = [proc EXCEPT !.exit = 1, !.stderr = @ + 1, !.failure = "missing"]
  /\ UNCHANGED << builds, rowValues, doneRows, inputCells, inputMetas, rowIndex, levelIndex, rowMeta, previousLevelId,
                  outputNodes, idMap, nodeMap, firstSeen, rowChain, createdChain >>

\* the input file exists: processExcelToTreeJSON is called and enters its try
InputExists ==
  /\ pc = "main"
  /\ pc' = "read"
  /\ UNCHANGED << builds, rowValues, doneRows, proc, inputCells, inputMetas, rowIndex, levelIndex, rowMeta,
                  previousLevelId, outputNodes, idMap, nodeMap, firstSeen, rowChain,
                  createdChain >>

\* fs.readFileSync, XLSX.read or sheet_to_json throws
ReadFails ==
  /\ pc = "read"
  /\ pc' = "caught"
  /\ proc' = [proc EXCEPT !.failure = "read"]
  /\ UNCHANGED << builds, rowValues, doneRows, inputCells, inputMetas, rowIndex, levelIndex, rowMeta, previousLevelId,
                  outputNodes, idMap, nodeMap, firstSeen, rowChain, createdChain >>

\* rawData is there; the collections are empty and rawData.forEach is called
ReadOk ==
  /\ pc = "read"
  /\ pc' = "scan"
  /\ UNCHANGED << builds, rowValues, doneRows, proc, inputCells, inputMetas, rowIndex, levelIndex, rowMeta,
                  previousLevelId, outputNodes, idMap, nodeMap, firstSeen, rowChain,
                  createdChain >>

\* the level callback on a truthy value that is not a string: .trim() throws,
\* forEach is left and control is in the catch clause
ThrowLevel ==
  /\ pc = "scan"
  /\ levelIndex < NumLevels
  /\ \E c \in inputCells : TrimThrows(c)
  /\ pc' = "caught"
  /\ proc' = [proc EXCEPT !.failure = "transform"]
  /\ UNCHANGED << builds, rowValues, doneRows, inputCells, inputMetas, rowIndex, levelIndex, rowMeta, previousLevelId,
                  outputNodes, idMap, nodeMap, firstSeen, rowChain, createdChain >>

\* fs.writeFileSync(outputFilePath, ...) returns; the function returns outputNodes
WriteOk ==
  /\ pc = "done"
  /\ pc' = "resolved"
  /\ proc' = [proc EXCEPT !.writes = @ + 1]
  /\ UNCHANGED << builds, rowValues, doneRows, inputCells, inputMetas, rowIndex, levelIndex, rowMeta, previousLevelId,
                  outputNodes, idMap, nodeMap, firstSeen, rowChain, createdChain >>

\* fs.writeFileSync(outputFilePath, ...) is called and throws
WriteFails ==
  /\ pc = "done"
  /\ pc' = "caught"
  /\ proc' = [proc EXCEPT !.writes = @ + 1, !.failure = "write"]
  /\ UNCHANGED << builds, rowValues, doneRows, inputCells, inputMetas, rowIndex, levelIndex, rowMeta, previousLevelId,
                  outputNodes, idMap, nodeMap, firstSeen, rowChain, createdChain >>

\* variant: the catch clause saves what was built so far
CatchErrorFlush ==
  /\ pc = "caught"
  /\ pc' = "rejected"
  /\ proc' = [proc EXCEPT !.stderr = @ + 1, !.writes = @ + 1]
  /\ UNCHANGED << builds, rowValues, doneRows, inputCells, inputMetas, rowIndex, levelIndex, rowMeta, previousLevelId,
                  outputNodes, idMap, nodeMap, firstSeen, rowChain, createdChain >>

\* catch (error) { console.error('Error processing Excel file:', error); throw error; }
CatchError ==
  /\ pc = "caught"
  /\ pc' = "rejected"
  /\ proc' = [proc EXCEPT !.stderr = @ + 1]
  /\ UNCHANGED << builds, rowValues, doneRows, inputCells, inputMetas, rowIndex, levelIndex, rowMeta, previousLevelId,
                  outputNodes, idMap, nodeMap, firstSeen, rowChain, createdChain >>

\* .then(() => { ... }): the statistics are printed, or reading the output back
\* fails and is logged; the script ends
ThenStatistics ==
  /\ pc = "resolved"
  /\ pc' = "exited"
  /\ \E analysed \in BOOLEAN :
       proc' = [proc EXCEPT !.stderr = IF analysed THEN @ ELSE @ + 1]
  /\ UNCHANGED << builds, rowValues, doneRows, inputCells, inputMetas, rowIndex, levelIndex, rowMeta, previousLevelId,
                  outputNodes, idMap, nodeMap, firstSeen, rowChain, createdChain >>

\* .catch(err => console.error('Process failed:', err)): the script ends
CatchRejection ==
  /\ pc = "rejected"
  /\ pc' = "exited"
  /\ proc' = [proc EXCEPT !.stderr = @ + 1]
  /\ UNCHANGED << builds, rowValues, doneRows, inputCells, inputMetas, rowIndex, levelIndex, rowMeta, previousLevelId,
                  outputNodes, idMap, nodeMap, firstSeen, rowChain, createdChain >>

NextRun ==
  \/ InputMissing \/ InputExists \/ ReadFails \/ ReadOk
  \/ BeginRow \/ SkipLevel \/ CreateNode \/ ReuseNode \/ ThrowLevel \/ EndScan
  \/ WriteOk \/ WriteFails \/ CatchError \/ ThenStatistics \/ CatchRejection

SpecRun == InitRun /\ [][NextRun]_vars

(* ---------- two builds on the same rows ---------- *)

\* the key the level callback of build b makes for value c
BuildKey(b, level, c) == compositeKey(level, Trim(c.s), b.previousLevelId)

\* the identifiers generateObjectId can return to build b for value c: it is
\* called only when the key is not in idMap
BuildIds(b, level, c) ==
  IF IsSkipped(c) \/ BuildKey(b, level, c) \in DOMAIN b.idMap
  THEN { NoId }
  ELSE generateObjectId({b.outputNodes[k]["_id"] : k \in 1..Len(b.outputNodes)})

\* the level callback (lines 58-112) as a function of the build
LevelCallback(b, level, c, row, nodeId) ==
  IF IsSkipped(c) THEN b
  ELSE LET value == Trim(c.s)
           key   == BuildKey(b, level, c)
       IN IF key \in DOMAIN b.idMap
          THEN [b EXCEPT !.previousLevelId = IdMapGet(b.idMap, key)]
          ELSE LET node   == NewNode(nodeId, level, value, b.previousLevelId, row)
                   pushed == PushNode(b.outputNodes, node)
                   nmap   == NodeMapSet(b.nodeMap, nodeId, Len(pushed))
                   imap   == IdMapSet(b.idMap, key, nodeId)
               IN [outputNodes     |-> LinkChild(pushed, nmap, b.previousLevelId, nodeId),
                   idMap           |-> imap,
                   nodeMap         |-> nmap,
                   previousLevelId |-> IdMapGet(imap, key)]

\* both builds are at rawData.forEach, on a sheet whose titles can hold an
\* identifier
InitTwin ==
  /\ Start
  /\ inputCells = Cells
  /\ inputMetas = { NoMeta }

\* the row callback starts in both builds
TwinBeginRow ==
  /\ pc = "scan"
  /\ levelIndex = NumLevels
  /\ rowIndex < MaxRows
  /\ \E m \in inputMetas : rowMeta' = m
  /\ rowIndex' = rowIndex + 1
  /\ levelIndex' = 0
  /\ builds' = [k \in 1..2 |-> [builds[k] EXCEPT !.previousLevelId = NoId]]
  /\ UNCHANGED << proc, inputCells, inputMetas, pc, previousLevelId, outputNodes, idMap,
                  nodeMap, firstSeen, rowChain, createdChain, rowValues, doneRows >>

\* the level callback runs in both builds on the same value; each build has
\* its own generateObjectId
TwinLevel ==
  /\ pc = "scan"
  /\ levelIndex < NumLevels
  /\ \E c \in inputCells :
       LET level == hierarchyLevels[levelIndex + 1]
       IN /\ ~TrimThrows(c)
          /\ \E id1 \in BuildIds(builds[1], level, c) :
               \E id2 \in BuildIds(builds[2], level, c) :
                 builds' = << LevelCallback(builds[1], level, c, rowMeta, id1),
                              LevelCallback(builds[2], level, c, rowMeta, id2) >>
  /\ levelIndex' = levelIndex + 1
  /\ UNCHANGED << proc, inputCells, inputMetas, pc, rowIndex, rowMeta, previousLevelId,
                  outputNodes, idMap, nodeMap, firstSeen, rowChain, createdChain,
                  rowValues, doneRows >>

\* rawData.forEach returns in both builds
TwinEndScan ==
  /\ pc = "scan"
  /\ levelIndex = NumLevels
  /\ pc' = "done"
  /\ UNCHANGED << proc, inputCells, inputMetas, rowIndex, levelIndex, rowMeta,
                  previousLevelId, outputNodes, idMap, nodeMap, firstSeen, rowChain,
                  createdChain, rowValues, doneRows, builds >>

NextTwin == TwinBeginRow \/ TwinLevel \/ TwinEndScan

SpecTwin == InitTwin /\ [][NextTwin]_vars

(* ---------- reading the output ---------- *)

Positions == 1..Len(outputNodes)

\* hierarchyLevels.find(level => node[level] !== ''), as a rank 1..NumLevels
Rank(node) == CHOOSE i \in 1..NumLevels : node[hierarchyLevels[i]] # <<>>

\* output.find(n => n._id === id)
NodeById(nodes, id) == nodes[CHOOSE i \in 1..Len(nodes) : nodes[i]["_id"] = id]

\* the node a recorded lookup resolves to
Resolved(e) == IdMapGet(idMap, compositeKey(e.level, e.value, e.parent))

\* the recorded lookup that has the node's own level, title and parent
OwnLookup(node) ==
  { k \in 1..Len(firstSeen) :
      /\ firstSeen[k].level = hierarchyLevels[Rank(node)]
      /\ firstSeen[k].value = node["title"]
      /\ firstSeen[k].parent = node["_parent"] }

(* ---------- C1 ---------- *)

\* C1: the output holds at most one node per deduplication key: no two
\* distinct output nodes have the same level, title and _parent, and every
\* (level, value, parent) lookup made so far resolves to exactly one output
\* node.
C1_OneNodePerKey ==
  /\ \A i, j \in Positions :
       ( /\ Rank(outputNodes[i]) = Rank(outputNodes[j])
         /\ outputNodes[i]["title"] = outputNodes[j]["title"]
         /\ outputNodes[i]["_parent"] = outputNodes[j]["_parent"] ) => i = j
  /\ \A k \in 1..Len(firstSeen) :
       Cardinality({i \in Positions : outputNodes[i]["_id"] = Resolved(firstSeen[k])}) = 1

\* the second row has ended on the first node, which the first row created
\* together with its child
C1_Witness ==
  /\ rowIndex = 2
  /\ levelIndex = NumLevels
  /\ Len(outputNodes) = 2
  /\ outputNodes[2]["_parent"] = outputNodes[1]["_id"]
  /\ Len(rowChain) = 1
  /\ rowChain[1].id = outputNodes[1]["_id"]

(* ---------- C2 ---------- *)

\* C2: two lookups whose (level, title, parent-or-none) triples differ never
\* resolve to the same node.  firstSeen holds each triple once.
C2_DistinctLookupsDistinctNodes ==
  \A a, b \in 1..Len(firstSeen) :
    a # b => Resolved(firstSeen[a]) # Resolved(firstSeen[b])

(* ---------- C3 ---------- *)

\* the rank of the last populated level of the current row, 0 when none
LastPopulatedRank == IF rowChain = <<>> THEN 0 ELSE rowChain[Len(rowChain)].rank

\* C3: gap tolerance.  A level callback on an absent, empty or blank value
\* creates no node and leaves the running parent unchanged; the node resolved
\* at the next populated level of the row has as _parent the id resolved for
\* the last populated lower level of the same row (the empty string when
\* there is none).
C3_GapTolerance ==
  [][ levelIndex' = levelIndex + 1 =>
        IF rowChain' = rowChain
        THEN /\ outputNodes' = outputNodes
             /\ previousLevelId' = previousLevelId
        ELSE levelIndex > LastPopulatedRank =>
               NodeById(outputNodes', previousLevelId')["_parent"] =
                 (IF rowChain = <<>> THEN <<>> ELSE rowChain[Len(rowChain)].id) ]_vars

(* ---------- C4 ---------- *)

\* C4: metadata first-wins.  Each node's metadata fields are those (with the
\* defaults for missing ones) of the first row that made the lookup with the
\* node's own level, title and parent.
C4_MetadataFirstWins ==
  \A i \in Positions :
    /\ OwnLookup(outputNodes[i]) # {}
    /\ \A k \in OwnLookup(outputNodes[i]) : \A f \in MetaFields :
         outputNodes[i][f] = OrDefault(firstSeen[k].meta[f], MetaDefaults[f])

\* a finished row resolved to a node whose Description is not the row's own
C4_Witness ==
  /\ levelIndex = NumLevels
  /\ rowChain # <<>>
  /\ NodeById(outputNodes, rowChain[Len(rowChain)].id)["Description"]
       # OrDefault(rowMeta["Description"], MetaDefaults["Description"])

(* ---------- C5 ---------- *)

\* the number of positions of seq that hold x
Occurrences(seq, x) == Cardinality({k \in 1..Len(seq) : seq[k] = x})

\* C5: child list integrity.  The parent of every node with a non-empty
\* _parent is in the output and lists the node exactly once in _child; every
\* id in a _child list is the _id of an output node whose _parent is the
\* holder of the list.
C5_ChildListIntegrity ==
  /\ \A i \in Positions :
       outputNodes[i]["_parent"] # <<>> =>
         /\ \E j \in Positions : outputNodes[j]["_id"] = outputNodes[i]["_parent"]
         /\ \A j \in Positions :
              outputNodes[j]["_id"] = outputNodes[i]["_parent"] =>
                Occurrences(outputNodes[j]["_child"], outputNodes[i]["_id"]) = 1
  /\ \A i \in Positions : \A k \in 1..Len(outputNodes[i]["_child"]) :
       \E j \in Positions :
         /\ outputNodes[j]["_id"] = outputNodes[i]["_child"][k]
         /\ outputNodes[j]["_parent"] = outputNodes[i]["_id"]

\* the scan has ended with a chain of three nodes
C5_Witness ==
  /\ pc = "done"
  /\ Len(outputNodes) = 3
  /\ outputNodes[3]["_parent"] = outputNodes[2]["_id"]
  /\ outputNodes[2]["_parent"] = outputNodes[1]["_id"]

(* ---------- C6 ---------- *)

\* C6 as claimed: the parent of a node is exactly one rank below the node.
C6_ParentOneRankBelow ==
  \A i \in Positions :
    outputNodes[i]["_parent"] # <<>> =>
      Rank(NodeById(outputNodes, outputNodes[i]["_parent"])) = Rank(outputNodes[i]) - 1

\* C6 amended: the parent of a node is at a strictly lower rank than the
\* node, namely the rank of the last populated lower level of the row that
\* created the node.
C6_ParentAtLastPopulatedRank ==
  \A i \in Positions :
    outputNodes[i]["_parent"] # <<>> =>
      /\ \E j \in Positions : outputNodes[j]["_id"] = outputNodes[i]["_parent"]
      /\ Rank(NodeById(outputNodes, outputNodes[i]["_parent"])) < Rank(outputNodes[i])
      /\ createdChain[i] # <<>>
      /\ Rank(NodeById(outputNodes, outputNodes[i]["_parent"]))
           = createdChain[i][Len(createdChain[i])].rank

\* a node is parented across a gap of two levels
C6_Witness ==
  \E i \in Positions :
    /\ outputNodes[i]["_parent"] # <<>>
    /\ Rank(NodeById(outputNodes, outputNodes[i]["_parent"])) = Rank(outputNodes[i]) - 3

(* ---------- C7 ---------- *)

\* C7 as claimed: _parent is empty exactly when the node is at rank 1.
C7_EmptyParentIffRankOne ==
  \A i \in Positions : outputNodes[i]["_parent"] = <<>> <=> Rank(outputNodes[i]) = 1

\* C7 amended: every rank-1 node has an empty _parent, and a node has an
\* empty _parent exactly when no lower level was populated in the row that
\* created it.
C7_EmptyParentIffFirstPopulated ==
  \A i \in Positions :
    /\ Rank(outputNodes[i]) = 1 => outputNodes[i]["_parent"] = <<>>
    /\ outputNodes[i]["_parent"] = <<>> <=> createdChain[i] = <<>>

\* a rank-1 node was created after a row that began at a higher rank
C7_Witness ==
  /\ Len(outputNodes) >= 2
  /\ Rank(outputNodes[1]) > 1
  /\ outputNodes[1]["_parent"] = <<>>
  /\ Rank(outputNodes[Len(outputNodes)]) = 1

(* ---------- C8 ---------- *)

\* C8: output order is creation order.  Nodes are listed in the order in
\* which the lookups with their own level, title and parent were first made,
\* and a step only appends to the output: it keeps every earlier position.
C8_CreationOrder ==
  /\ [](\A i, j \in Positions :
          i < j =>
            /\ OwnLookup(outputNodes[i]) # {}
            /\ OwnLookup(outputNodes[j]) # {}
            /\ \A a \in OwnLookup(outputNodes[i]) : \A b \in OwnLookup(outputNodes[j]) : a < b)
  /\ [][ /\ Len(outputNodes') >= Len(outputNodes)
         /\ \A i \in Positions : outputNodes'[i]["_id"] = outputNodes[i]["_id"] ]_vars

\* a row reused the first node and created the third node under it
C8_Witness ==
  /\ Len(outputNodes) = 3
  /\ Len(rowChain) = 2
  /\ rowChain[1].id = outputNodes[1]["_id"]
  /\ rowChain[2].id = outputNodes[3]["_id"]
  /\ createdChain[3] = << rowChain[1] >>

(* ---------- C9 ---------- *)

\* the ids of the output nodes whose _parent is id, in output order
ChildrenOf(id) ==
  LET sel == SelectSeq(outputNodes, LAMBDA n : n["_parent"] = id)
  IN [k \in 1..Len(sel) |-> sel[k]["_id"]]

\* C9: every _child list holds exactly the ids of the nodes created with the
\* holder as parent, without duplicates, in the order of the output.
C9_ChildOrder ==
  \A i \in Positions : outputNodes[i]["_child"] = ChildrenOf(outputNodes[i]["_id"])

\* a node has two children
C9_Witness ==
  \E i \in Positions : Len(outputNodes[i]["_child"]) = 2

(* ---------- C10 ---------- *)

NodeFields == DOMAIN NewNode(NoId, hierarchyLevels[1], <<>>, NoId, MetaDefaults)

\* C10: node lifecycle.  A node in the output stays at its position with the
\* same _id, title, level fields, _parent and metadata; its _child changes
\* only by the append of the id of the node created in that step.
C10_Lifecycle ==
  [][ \A i \in Positions :
        /\ i <= Len(outputNodes')
        /\ \A f \in NodeFields \ {"_child"} : outputNodes'[i][f] = outputNodes[i][f]
        /\ \/ outputNodes'[i]["_child"] = outputNodes[i]["_child"]
           \/ /\ Len(outputNodes') = Len(outputNodes) + 1
              /\ outputNodes'[i]["_child"] =
                   Append(outputNodes[i]["_child"], outputNodes'[Len(outputNodes')]["_id"]) ]_vars

\* a node that had a child has got a second one
C10_Witness ==
  /\ pc = "done"
  /\ Len(outputNodes) = 3
  /\ Len(createdChain[2]) = 1
  /\ outputNodes[1]["_child"] = << outputNodes[2]["_id"], outputNodes[3]["_id"] >>

(* ---------- C11 ---------- *)

\* C11: empty-row handling.  While no level of the current row has been
\* populated, a blank value can be processed at every level (no error stops
\* the row), and the start of the row and each of its level callbacks leave
\* the output (so every node's _child and metadata) and both indices
\* unchanged.
C11_EmptyRow ==
  /\ [](pc = "scan" /\ levelIndex < NumLevels => ENABLED SkipLevel)
  /\ [][ pc' = "scan" /\ rowChain' = <<>> =>
           /\ outputNodes' = outputNodes
           /\ idMap' = idMap
           /\ nodeMap' = nodeMap ]_vars

\* a second row has ended without a populated level, after a first row that
\* created nodes
C11_Witness ==
  /\ rowIndex = 2
  /\ levelIndex = NumLevels
  /\ rowChain = <<>>
  /\ Len(outputNodes) = 2

(* ---------- C13 ---------- *)

\* C13: every node has exactly one non-empty level field; its value is the
\* node's title and it is the level of the key under which the node was
\* stored when it was created.
C13_OneLevelField ==
  \A i \in Positions :
    /\ Cardinality({l \in LevelNames : outputNodes[i][l] # <<>>}) = 1
    /\ \A l \in LevelNames :
         outputNodes[i][l] # <<>> => outputNodes[i][l] = outputNodes[i]["title"]
    /\ \E key \in DOMAIN idMap : idMap[key] = outputNodes[i]["_id"]
    /\ \A key \in DOMAIN idMap :
         idMap[key] = outputNodes[i]["_id"] => outputNodes[i][key[1]] # <<>>

\* three nodes at three different levels
C13_Witness ==
  /\ Len(outputNodes) = 3
  /\ Cardinality({Rank(outputNodes[i]) : i \in Positions}) = 3

(* ---------- C17 ---------- *)

\* C17: the running parent is reset at the start of every row.  The node
\* resolved for the first populated level of a row has an empty _parent, and
\* the parent of a node is a node resolved in the row that created it.
C17_ParentResetPerRow ==
  /\ [](\A i \in Positions :
          outputNodes[i]["_parent"] # <<>> =>
            /\ createdChain[i] # <<>>
            /\ outputNodes[i]["_parent"] = createdChain[i][Len(createdChain[i])].id)
  /\ [][ rowChain = <<>> /\ rowChain' # <<>> =>
           NodeById(outputNodes', previousLevelId')["_parent"] = <<>> ]_vars

(* ---------- C18 ---------- *)

\* following _parent from position i reaches a node without parent in at
\* most k steps
RECURSIVE RootWithin(_, _)
RootWithin(i, k) ==
  \/ outputNodes[i]["_parent"] = <<>>
  \/ /\ k > 0
     /\ \E j \in Positions :
          /\ outputNodes[j]["_id"] = outputNodes[i]["_parent"]
          /\ RootWithin(j, k - 1)

\* C18: the output is a forest.  The parent of a node is earlier in the
\* output and at a lower rank, and following _parent from any node reaches a
\* node with empty _parent in at most NumLevels - 1 steps.
C18_Forest ==
  \A i \in Positions :
    /\ outputNodes[i]["_parent"] # <<>> =>
         \E j \in 1..(i - 1) :
           /\ outputNodes[j]["_id"] = outputNodes[i]["_parent"]
           /\ Rank(outputNodes[j]) < Rank(outputNodes[i])
    /\ RootWithin(i, NumLevels - 1)

\* a grandchild that was created across a gap
C18_Witness ==
  \E i, j \in Positions :
    /\ outputNodes[i]["_parent"] = outputNodes[j]["_id"]
    /\ outputNodes[j]["_parent"] # <<>>
    /\ Rank(outputNodes[i]) = Rank(outputNodes[j]) + 2

(* ---------- C19 ---------- *)

\* C19: index consistency.  idMap, nodeMap and the output have the same
\* number of entries; every id in idMap is the _id of exactly one output
\* node, and nodeMap maps the id to that node.  It holds after every level
\* callback, so after every row.
C19_IndexConsistency ==
  /\ Cardinality(DOMAIN idMap) = Len(outputNodes)
  /\ Cardinality(DOMAIN nodeMap) = Len(outputNodes)
  /\ \A key \in DOMAIN idMap :
       /\ Cardinality({i \in Positions : outputNodes[i]["_id"] = idMap[key]}) = 1
       /\ idMap[key] \in DOMAIN nodeMap
       /\ nodeMap[idMap[key]] \in Positions
       /\ outputNodes[nodeMap[idMap[key]]]["_id"] = idMap[key]

\* the second row has ended and the indices hold three entries
C19_Witness ==
  /\ rowIndex = 2
  /\ levelIndex = NumLevels
  /\ Cardinality(DOMAIN idMap) = 3
  /\ Cardinality(DOMAIN nodeMap) = 3

(* ---------- C14 ---------- *)

\* C14: a run in which the input is missing, the read fails, the transform
\* throws or the write fails has reported a message and has a non-zero exit
\* status when the process has terminated.
C14_FailureExitsNonZero ==
  pc = "exited" /\ proc.failure # "none" => proc.stderr > 0 /\ proc.exit # 0

(* ---------- C15 ---------- *)

\* C15: writeFileSync is called at most once in a run, and only when the read
\* has succeeded and rawData.forEach has returned without an error; a run whose
\* input is missing, whose read fails or whose transform throws never calls it.
C15_WriteOnceAfterTransform ==
  /\ [](/\ proc.writes <= 1
        /\ proc.failure \in {"missing", "read", "transform"} => proc.writes = 0
        /\ pc = "done" => levelIndex = NumLevels /\ proc.failure = "none")
  /\ [][ proc'.writes # proc.writes =>
           /\ pc = "done"
           /\ proc.writes = 0 ]_vars

\* the transform threw in the second row, after nodes were built, and the
\* process has terminated
C15_Witness ==
  /\ pc = "exited"
  /\ proc.failure = "transform"
  /\ rowIndex = 2
  /\ Len(outputNodes) = 2

(* ---------- C16 ---------- *)

\* p is an initial part of r
IsPrefix(p, r) ==
  /\ Len(p) <= Len(r)
  /\ \A k \in 1..Len(p) : p[k] = r[k]

\* C16: re-processing is idempotent.  While the level values of the current
\* row, blank ones included, repeat those of a row processed before, whatever
\* the metadata of the two rows, every level callback leaves the output (so
\* every _child list) and both indices exactly as they were.
C16_Idempotent ==
  [][ /\ levelIndex' = levelIndex + 1
      /\ \E r \in doneRows : IsPrefix(rowValues', r)
      => /\ outputNodes' = outputNodes
         /\ idMap' = idMap
         /\ nodeMap' = nodeMap ]_vars

\* the second row has repeated the two populated levels of the first with
\* other metadata
C16_Witness ==
  /\ rowIndex = 2
  /\ levelIndex = NumLevels
  /\ rowValues \in doneRows
  /\ Len(rowChain) = 2
  /\ Len(outputNodes) = 2
  /\ \E f \in MetaFields : OrDefault(rowMeta[f], MetaDefaults[f]) # outputNodes[1][f]

(* ---------- C12 ---------- *)

\* the identifier of the second build at the position where id is the _id in
\* the first
Renamed(id) ==
  IF id = <<>> THEN <<>>
  ELSE builds[2].outputNodes[CHOOSE j \in 1..Len(builds[1].outputNodes) :
                               builds[1].outputNodes[j]["_id"] = id]["_id"]

\* C12: determinism.  Two builds of the same rows with their own identifier
\* generators have outputs of the same length, equal position by position in
\* title, level fields and metadata, and the _id, _parent and _child of the
\* second are those of the first under the renaming of identifiers that maps
\* _id to _id position by position.
C12_Determinism ==
  LET o1 == builds[1].outputNodes
      o2 == builds[2].outputNodes
  IN /\ Len(o1) = Len(o2)
     /\ \A i \in 1..Len(o1) :
          /\ o1[i]["title"] = o2[i]["title"]
          /\ \A l \in LevelNames : o1[i][l] = o2[i][l]
          /\ \A f \in MetaFields : o1[i][f] = o2[i][f]
          /\ o2[i]["_parent"] = Renamed(o1[i]["_parent"])
          /\ Len(o2[i]["_child"]) = Len(o1[i]["_child"])
          /\ \A k \in 1..Len(o1[i]["_child"]) :
               o2[i]["_child"][k] = Renamed(o1[i]["_child"][k])

====
